---- MODULE Spec2Model ----
(***************************************************************************)
(* The IndexedDB data cache of lukina (src/db/dataCache.js, the variant    *)
(* with a version check: src/unnamed/part_006).                            *)
(*                                                                         *)
(* One browser process at a time runs the module.  Its state is the three  *)
(* module-level variables (_dbPromise, _initPromise, _usedDataIDs), the    *)
(* position of every pending async call, the connections the process has   *)
(* opened and the queue of open/delete requests it has handed to           *)
(* IndexedDB.  The database itself outlives the process.                   *)
(*                                                                         *)
(* Encodings.  A record is a TLA+ record whose fields are a subset of      *)
(* {id, text}; keys are naturals.  The meta record's key (the string       *)
(* REACT_APP_META_RECORD_ID) is encoded as a number above every row key,   *)
(* which is where IndexedDB sorts a string key.                            *)
(***************************************************************************)
EXTENDS Integers, Sequences, FiniteSets, TLC

\* ------------------------------------------------------------------ bounds
MaxSessions == 2   \* browser processes that run one after the other
MaxCalls    == 2   \* initAndCacheData() calls made in one process
MaxReaders  == 2   \* getFromStore() calls that may overlap
MaxReads    == 2   \* getFromStore() calls made in one process
MaxPicks    == 5   \* getFromStore() calls made in one process that only samples
MaxRows     == 2   \* rows of a sheet of an arbitrary dataset
MaxSheets   == 2   \* sheets of a workbook given to the converter
MaxSheetRows == 1  \* data rows of a sheet of such a workbook
MaxRuns     == 2   \* runs of the converter

\* --------------------------------------------------------------- constants
META_STORE     == "meta"
META_RECORD_ID == 99
KEY_ID         == "id"

Callers == 1..MaxCalls
Readers == 1..MaxReaders
\* every getFromStore call opens at most one connection, the init run two
ConnIds == 1..(MaxReads + 2)

\* ---------------------------------------------------------------- datasets
NoData == [version |-> "", sheets |-> <<>>]

\* {"0": [{text:"a"}, {text:"b"}], "1": [], "version": "t1"}
DataT1 ==
  [version |-> "t1",
   sheets  |-> [n \in {"0", "1"} |->
                  IF n = "0" THEN <<[text |-> "a"], [text |-> "b"]>> ELSE <<>>]]

\* {"0": [{id:0, text:"c"}], "version": "t2"}
DataT2 ==
  [version |-> "t2",
   sheets  |-> [n \in {"0"} |-> <<[id |-> 0, text |-> "c"]>>]]

Datasets == {DataT1, DataT2}

\* Datasets to sample from: sheets of one, two and three rows, an empty
\* sheet, and rows that bring their own id (0 among them).
SamplerSheets ==
  { <<[text |-> "a"]>>,
    <<[text |-> "a"], [text |-> "b"]>>,
    <<[text |-> "a"], [text |-> "b"], [text |-> "c"]>> }
SamplerOthers ==
  { <<>>, <<[id |-> 0, text |-> "d"], [id |-> 2, text |-> "e"]>> }
SamplerDatasets ==
  { [version |-> "t1", sheets |-> [n \in {"0", "1"} |-> IF n = "0" THEN a ELSE b]] :
      a \in SamplerSheets, b \in SamplerOthers }

\* Arbitrary datasets of one sheet: every row has a text, and no id or an
\* id of 0, 1 or 2.
Rows == [text : {"a", "b"}] \cup [id : 0..2, text : {"a", "b"}]
RowSeqs == UNION { [1..n -> Rows] : n \in 0..MaxRows }
AnyDatasets ==
  { [version |-> "t1", sheets |-> [n \in {"0"} |-> rows]] : rows \in RowSeqs }

SheetNames == {"0", "1"}

\* ------------------------------------------------- the object stores (pure)
\* An object store: its rows by key, and its key generator.
EmptyStore == [rows |-> <<>>, gen |-> 1]

Upsert(rows, key, value) ==
  [k \in DOMAIN rows \cup {key} |-> IF k = key THEN value ELSE rows[k]]

\* (a store that keys every row by its generator and writes that key into
\* the row)
StorePutRekeyed(store, row) ==
  [rows |-> Upsert(store.rows, store.gen,
                   [f \in DOMAIN row \cup {KEY_ID} |->
                      IF f = KEY_ID THEN store.gen ELSE row[f]]),
   gen  |-> store.gen + 1]

\* store.put(row) on a store created with keyPath KEY_ID, autoIncrement true
StorePut(store, row) ==
  IF KEY_ID \in DOMAIN row
  THEN [rows |-> Upsert(store.rows, row.id, row),
        gen  |-> IF row.id >= store.gen THEN row.id + 1 ELSE store.gen]
  ELSE [rows |-> Upsert(store.rows, store.gen,
                        [f \in DOMAIN row \cup {KEY_ID} |->
                           IF f = KEY_ID THEN store.gen ELSE row[f]]),
        gen  |-> store.gen + 1]

RECURSIVE PutRows(_, _)
PutRows(store, rows) ==
  IF rows = <<>> THEN store
  ELSE PutRows(StorePut(store, Head(rows)), Tail(rows))

MetaRec(version) == [id |-> META_RECORD_ID, version |-> version]

\* What onupgradeneeded writes when it is given data: one store per sheet
\* with all its rows, then the meta store with the meta record.
Populate(data) ==
  LET sheetStores == [n \in DOMAIN data.sheets |->
                        PutRows(EmptyStore, data.sheets[n]).rows]
      names == DOMAIN data.sheets \cup {META_STORE}
  IN  [n \in names |->
         IF n = META_STORE
         THEN Upsert(IF n \in DOMAIN sheetStores THEN sheetStores[n] ELSE <<>>,
                     META_RECORD_ID, MetaRec(data.version))
         ELSE sheetStores[n]]

\* store.get(key): a one-element sequence, or <<>> for undefined
StoreGet(st, name, key) ==
  IF key \in DOMAIN st[name] THEN <<st[name][key]>> ELSE <<>>

\* ------------------------------------------------------------------- state
VARIABLES
  served,       \* the dataset the server answers a fetch with
  dbExists,     \* the database exists on disk
  stores,       \* its object stores: store name -> (key -> stored value)
  conns,        \* per connection of this process: unused, queued, open, closed, err
  reqQ,         \* open/delete requests handed to IndexedDB, oldest first
  dbPromise,    \* _dbPromise: 0 (null) or the connection it is a promise of
  initPromise,  \* _initPromise: 0 (null) or the run it is the promise of
  usedDataIDs,  \* _usedDataIDs: store name -> set of served keys
  run,          \* the async body started by initAndCacheData, per run
  call,         \* per initAndCacheData() call: 0 (not made) or the promise returned
  rd,           \* per getFromStore() call slot: where it is and what it holds
  quota,        \* getFromStore() calls a process may make
  reads,        \* getFromStore() calls this process may still make
  session,      \* number of the running process
  ops,          \* what this process has issued: fetches, deleteDatabase, populates
  stores0,      \* the object stores as the running process found them
  picks,        \* per store: the keys picked while the store held its present rows
  upg,          \* the upgrade transaction of the open request being served
  prev,         \* how the run of the process before this one ended
  cvt           \* the converter's files, clock and last result

vars == <<served, dbExists, stores, conns, reqQ, dbPromise, initPromise,
          usedDataIDs, run, call, rd, quota, reads, session, ops, stores0, picks,
          upg, prev, cvt>>

durable == <<dbExists, stores>>
idb     == <<conns, reqQ, upg>>
server  == <<served, cvt>>
found   == <<stores0, prev>>
reader  == <<usedDataIDs, rd, quota, reads, picks>>

IdleRun  == [pc |-> "idle", data |-> NoData, existingDB |-> 0, aw |-> 0, err |-> "none"]
IdleRd   == [pc |-> "idle", store |-> "", aw |-> 0, key |-> 0, result |-> <<>>,
             late |-> FALSE, absent |-> FALSE]
NoOps    == [fetch |-> 0, del |-> 0, pop |-> 0]
NoPicks  == [n \in SheetNames |-> <<>>]
NoUpgrade == [on |-> FALSE, stores |-> <<>>]

\* The module as loaded by a new process (lines 40-43).
NoConns == [i \in ConnIds |-> "unused"]
NoRuns  == [r \in Callers |-> IdleRun]
NoCalls == [c \in Callers |-> 0]
NoRds   == [k \in Readers |-> IdleRd]

\* The converter before it was run, with neither file on disk.  A file is
\* <<>> (not there) or <<its content>>; the clock is a day since 1 January
\* 1970 and the milliseconds into it.
IdleCvt == [pc |-> "idle", input |-> <<>>, output |-> <<>>,
            now |-> [day |-> 0, ms |-> 0], err |-> "", sheets |-> 0,
            runs |-> 0, parses |-> 0, writes |-> 0]

\* The first process starts on a disk without the database.
Boot(ds, q) ==
  /\ served \in ds
  /\ dbExists = FALSE
  /\ stores = <<>>
  /\ stores0 = <<>>
  /\ session = 1
  /\ quota = q
  /\ reads = q
  /\ conns = NoConns
  /\ reqQ = <<>>
  /\ dbPromise = 0
  /\ initPromise = 0
  /\ usedDataIDs = <<>>
  /\ run = NoRuns
  /\ call = NoCalls
  /\ rd = NoRds
  /\ ops = NoOps
  /\ picks = NoPicks
  /\ upg = NoUpgrade
  /\ prev = "none"

Init == Boot(Datasets, MaxReads) /\ cvt = IdleCvt

\* ------------------------------------------------------------------ openDB
FreshConn == CHOOSE i \in ConnIds :
               conns[i] = "unused" /\ \A j \in ConnIds : j < i => conns[j] # "unused"

\* indexedDB.open is issued and its promise memoized (lines 56-58, 101)
OpenNew(data, p) ==
  /\ \E i \in ConnIds : conns[i] = "unused"
  /\ p = FreshConn
  /\ conns' = [conns EXCEPT ![p] = "queued"]
  /\ reqQ' = Append(reqQ, [kind |-> "open", id |-> p, data |-> data])
  /\ dbPromise' = p
  /\ UNCHANGED upg

\* (an openDB that opens a connection on every call)
OpenDBNoMemo(data, p) == OpenNew(data, p)

\* openDB(data) returning promise p (lines 53-102)
OpenDB(data, p) ==
  IF dbPromise # 0
  THEN p = dbPromise /\ UNCHANGED <<dbPromise, conns, reqQ, upg>>
  ELSE OpenNew(data, p)

Resolved(p) == conns[p] \in {"open", "closed"}
Rejected(p) == conns[p] = "err"

\* The continuation of an await runs as a microtask once the awaited promise
\* has settled (lines 181, 218, 221, 249): before the event loop hands out
\* the next task, be it a storage event, the fetch response or a call.
MicrotaskReady ==
  \/ \E r \in Callers :
       /\ run[r].pc \in {"probeOpen", "populating"}
       /\ Resolved(run[r].aw) \/ Rejected(run[r].aw)
  \/ \E r \in Callers : run[r].pc = "deleted"
  \/ \E k \in Readers :
       /\ rd[k].pc = "opening"
       /\ Resolved(rd[k].aw) \/ Rejected(rd[k].aw)

Task == ~MicrotaskReady

\* -------------------------------------------------------- initAndCacheData
\* (a memo of the settled outcome instead of the pending promise)
InitMemoOnceSettled ==
  IF initPromise # 0 /\ run[initPromise].pc \in {"resolved", "rejected"}
  THEN initPromise ELSE 0

\* (a memo that is dropped when its run rejected)
InitMemoUnlessRejected ==
  IF initPromise # 0 /\ run[initPromise].pc = "rejected" THEN 0 ELSE initPromise

\* the memo the call looks at (line 167)
InitMemo == initPromise

\* initAndCacheData() called (lines 166-170, 230): returns the memoized
\* promise, or starts the run and with it the fetch.
InitAndCacheData(c) ==
  /\ Task
  /\ call[c] = 0
  /\ \A b \in Callers : b < c => call[b] # 0
  /\ IF InitMemo # 0
     THEN /\ call' = [call EXCEPT ![c] = InitMemo]
          /\ UNCHANGED <<initPromise, run, ops>>
     ELSE /\ initPromise' = c
          /\ call' = [call EXCEPT ![c] = c]
          /\ run' = [run EXCEPT ![c].pc = "fetch"]
          /\ ops' = [ops EXCEPT !.fetch = @ + 1]
  /\ UNCHANGED <<server, durable, idb, dbPromise, reader, session, found>>

\* the response is ok and its body parses (lines 170-172); the run goes on
\* to the probe's openDB() (line 181)
FetchOk(r) ==
  /\ Task
  /\ run[r].pc = "fetch"
  /\ \E p \in ConnIds :
       /\ OpenDB(NoData, p)
       /\ run' = [run EXCEPT ![r].pc = "probeOpen", ![r].data = served, ![r].aw = p]
  /\ UNCHANGED <<server, durable, initPromise, call, reader, session, ops, found>>

\* (a run that wipes before it looks at the response's status)
FetchNotOkAfterWipe(r) ==
  /\ Task
  /\ run[r].pc = "fetch"
  /\ run' = [run EXCEPT ![r].pc = "rejected", ![r].err = "FetchError"]
  /\ reqQ' = Append(reqQ, [kind |-> "delete", id |-> r, data |-> NoData])
  /\ ops' = [ops EXCEPT !.del = @ + 1]
  /\ UNCHANGED <<server, durable, conns, upg, dbPromise, initPromise, call, reader,
                 session, found>>

\* the response is not ok (line 171)
FetchNotOk(r) ==
  /\ Task
  /\ run[r].pc = "fetch"
  /\ run' = [run EXCEPT ![r].pc = "rejected", ![r].err = "FetchError"]
  /\ UNCHANGED <<server, durable, idb, dbPromise, initPromise, call, reader,
                 session, ops, found>>

\* res.json() rejects (line 172)
JsonFails(r) ==
  /\ Task
  /\ run[r].pc = "fetch"
  /\ run' = [run EXCEPT ![r].pc = "rejected", ![r].err = "ParseError"]
  /\ UNCHANGED <<server, durable, idb, dbPromise, initPromise, call, reader,
                 session, ops, found>>

\* (a run that calls deleteDatabase() without closing the probed connection)
StartRepopulateNoClose(r, existing, err) ==
  /\ conns' = conns
  /\ reqQ' = Append(reqQ, [kind |-> "delete", id |-> r, data |-> NoData])
  /\ run' = [run EXCEPT ![r].pc = "deleting", ![r].existingDB = existing,
                        ![r].err = err]
  /\ ops' = [ops EXCEPT !.del = @ + 1]
  /\ UNCHANGED <<dbPromise, upg>>

\* needPopulate (lines 208-218): close the probed connection, if there is
\* one, and call deleteDatabase()
StartRepopulate(r, existing, err) ==
  /\ conns' = IF existing # 0
              THEN [conns EXCEPT ![existing] = "closed"] ELSE conns
  /\ reqQ' = Append(reqQ, [kind |-> "delete", id |-> r, data |-> NoData])
  /\ run' = [run EXCEPT ![r].pc = "deleting", ![r].existingDB = existing,
                        ![r].err = err]
  /\ ops' = [ops EXCEPT !.del = @ + 1]
  /\ UNCHANGED <<dbPromise, upg>>

\* (a probe that never finds the versions equal)
VersionDiffersAlways(meta, data) == TRUE

\* (a probe that compares nothing once the meta record is there)
VersionDiffersNever(meta, data) == meta = <<>>

\* the version comparison of the probe (line 198)
VersionDiffers(meta, data) == meta = <<>> \/ meta[1].version # data.version

\* the probe's openDB() resolved (lines 181-193)
ProbeOpened(r) ==
  /\ run[r].pc = "probeOpen"
  /\ Resolved(run[r].aw)
  /\ IF DOMAIN stores = {} \/ META_STORE \notin DOMAIN stores
     THEN StartRepopulate(r, run[r].aw, "none")
     ELSE IF conns[run[r].aw] = "closed"
     THEN StartRepopulate(r, run[r].aw, "ProbeError")
     ELSE /\ run' = [run EXCEPT ![r].pc = "probeMeta", ![r].existingDB = run[r].aw]
          /\ UNCHANGED <<idb, dbPromise, ops>>
  /\ UNCHANGED <<server, durable, initPromise, call, reader, session, found>>

\* the meta record was read (lines 194-200, 222-228)
MetaRead(r) ==
  /\ Task
  /\ run[r].pc = "probeMeta"
  /\ IF VersionDiffers(StoreGet(stores, META_STORE, META_RECORD_ID), run[r].data)
     THEN StartRepopulate(r, run[r].existingDB, "none")
     ELSE /\ dbPromise' = run[r].existingDB
          /\ run' = [run EXCEPT ![r].pc = "resolved"]
          /\ UNCHANGED <<idb, ops>>
  /\ UNCHANGED <<server, durable, initPromise, call, reader, session, found>>

\* (a run that reopens the database without handing over the dataset)
DeleteSucceededNoData(r) ==
  /\ run[r].pc = "deleted"
  /\ \E p \in ConnIds :
       /\ OpenNew(NoData, p)
       /\ run' = [run EXCEPT ![r].pc = "populating", ![r].aw = p]
  /\ UNCHANGED <<server, durable, initPromise, call, reader, session, ops, found>>

\* deleteDatabase() resolved (lines 218-220): forget the memo, openDB(data)
DeleteSucceeded(r) ==
  /\ run[r].pc = "deleted"
  /\ \E p \in ConnIds :
       /\ OpenNew(run[r].data, p)
       /\ run' = [run EXCEPT ![r].pc = "populating", ![r].aw = p]
  /\ UNCHANGED <<server, durable, initPromise, call, reader, session, ops, found>>

\* openDB(data) resolved (lines 220-221, 227)
PopulateOpened(r) ==
  /\ run[r].pc = "populating"
  /\ Resolved(run[r].aw)
  /\ dbPromise' = run[r].aw
  /\ run' = [run EXCEPT ![r].pc = "resolved"]
  /\ UNCHANGED <<server, durable, idb, initPromise, call, reader, session, ops, found>>

\* ------------------------------------------------------------ getFromStore
\* a transaction of this call is running on its connection
InTx(k) == rd[k].pc \in {"keys", "get"}

\* getFromStore(storeName) called (lines 246-249)
GetFromStore(k, s) ==
  /\ Task
  /\ rd[k].pc = "idle"
  /\ \A j \in Readers : j < k => rd[j].pc # "idle"
  /\ reads > 0
  /\ \E p \in ConnIds :
       /\ OpenDB(NoData, p)
       /\ rd' = [rd EXCEPT ![k] =
                   [IdleRd EXCEPT !.pc = "opening", !.store = s, !.aw = p,
                                  !.late = (initPromise # 0
                                            /\ run[initPromise].pc = "resolved"),
                                  !.absent = (s \notin DOMAIN stores)]]
  /\ reads' = reads - 1
  /\ UNCHANGED <<server, durable, initPromise, usedDataIDs, run, call, session,
                 quota, ops, found, picks>>

\* (a getFromStore that answers undefined when the store is missing)
ReaderOpenedLenient(k) ==
  /\ rd[k].pc = "opening"
  /\ Resolved(rd[k].aw)
  /\ rd' = [rd EXCEPT ![k].pc =
              IF conns[rd[k].aw] = "closed" THEN "rejected"
              ELSE IF rd[k].store \notin DOMAIN stores THEN "done" ELSE "keys"]
  /\ UNCHANGED <<server, durable, idb, dbPromise, initPromise, usedDataIDs, run,
                 call, quota, reads, session, ops, found, picks>>

\* openDB() resolved (lines 249-253): db.transaction throws on a closed
\* connection and on a store the database does not have
ReaderOpened(k) ==
  /\ rd[k].pc = "opening"
  /\ Resolved(rd[k].aw)
  /\ rd' = [rd EXCEPT ![k].pc =
              IF conns[rd[k].aw] = "closed" \/ rd[k].store \notin DOMAIN stores
              THEN "rejected" ELSE "keys"]
  /\ UNCHANGED <<server, durable, idb, dbPromise, initPromise, usedDataIDs, run,
                 call, quota, reads, session, ops, found, picks>>

\* (a sampler that does not look for an empty store)
NoKeysNever(keys) == FALSE

\* `keys.length === 0` (line 128)
NoKeys(keys) == keys = {}

\* (a sampler that starts over only when the used set is the key set)
UsedAfterResetWhenEqual(used, keys) == IF used = keys THEN {} ELSE used

\* the used set the pick goes on with (lines 131-140)
UsedAfterReset(used, keys) ==
  IF Cardinality(used) >= Cardinality(keys) THEN {} ELSE used

\* (a sampler that does not filter out the keys it served)
AvailableUnfiltered(used, keys) == keys

\* the keys the pick chooses from (line 143)
Available(used, keys) == keys \ used

\* `if (!key)` (line 254)
Falsy(key) == key = 0

\* (a sampler that does not mark the key it picked)
SetUsedUnmarked(map, s, u) ==
  [n \in DOMAIN map \cup {s} |-> IF n \in DOMAIN map THEN map[n] ELSE {}]

\* (one used set shared by all the stores)
SetUsedShared(map, s, u) == [n \in DOMAIN map \cup {s} |-> u]

\* `_usedDataIDs[storeName] = used` (lines 131-134, 140, 148)
SetUsed(map, s, u) == [n \in DOMAIN map \cup {s} |-> IF n = s THEN u ELSE map[n]]

\* getAllKeys succeeded (lines 126-151, 253-256)
KeysSuccess(k) ==
  /\ Task
  /\ rd[k].pc = "keys"
  /\ LET s    == rd[k].store
         keys == DOMAIN stores[s]
         used == UsedAfterReset(IF s \in DOMAIN usedDataIDs
                                THEN usedDataIDs[s] ELSE {}, keys)
         setUsed(u) == SetUsed(usedDataIDs, s, u)
     IN  IF NoKeys(keys)
         THEN /\ rd' = [rd EXCEPT ![k].pc = "done", ![k].result = <<>>]
              /\ UNCHANGED <<usedDataIDs, picks>>
         ELSE IF Available(used, keys) = {}
         THEN /\ rd' = [rd EXCEPT ![k].pc = "done", ![k].result = <<>>]
              /\ usedDataIDs' = setUsed(used)
              /\ UNCHANGED picks
         ELSE \E picked \in Available(used, keys) :
                /\ usedDataIDs' = setUsed(used \cup {picked})
                /\ picks' = [picks EXCEPT ![s] = Append(@, picked)]
                /\ rd' = IF Falsy(picked)
                         THEN [rd EXCEPT ![k].pc = "done", ![k].result = <<>>]
                         ELSE [rd EXCEPT ![k].pc = "get", ![k].key = picked]
  /\ UNCHANGED <<server, durable, idb, dbPromise, initPromise, run, call, quota, reads,
                 session, ops, found>>

\* store.get(key) succeeded (lines 256-261)
GetSuccess(k) ==
  /\ Task
  /\ rd[k].pc = "get"
  /\ rd' = [rd EXCEPT ![k].pc = "done",
                      ![k].result = StoreGet(stores, rd[k].store, rd[k].key)]
  /\ UNCHANGED <<server, durable, idb, dbPromise, initPromise, usedDataIDs, run,
                 call, quota, reads, session, ops, found, picks>>

\* the caller has its answer; the slot is free for the next call
ReaderReturn(k) ==
  /\ rd[k].pc \in {"done", "rejected"}
  /\ rd' = [rd EXCEPT ![k] = IdleRd]
  /\ UNCHANGED <<server, durable, idb, dbPromise, initPromise, usedDataIDs, run,
                 call, quota, reads, session, ops, found, picks>>

\* --------------------------------------------------------------- IndexedDB
\* (an upgrade that creates the meta store also when it is given no data)
UpgradeMetaAlways(data) ==
  IF data = NoData THEN [n \in {META_STORE} |-> <<>>] ELSE Populate(data)

\* what onupgradeneeded does in the upgrade transaction (lines 59-92): it
\* returns at once when openDB was given no data (line 63)
Upgrade(data) == IF data = NoData THEN <<>> ELSE Populate(data)

\* (an open whose promise resolves from onupgradeneeded, before the
\* upgrade transaction has committed)
IdbUpgradeResolvesEarly ==
  /\ Task
  /\ reqQ # <<>>
  /\ Head(reqQ).kind = "open"
  /\ ~dbExists
  /\ ~upg.on
  /\ upg' = [on |-> TRUE, stores |-> Upgrade(Head(reqQ).data)]
  /\ conns' = [conns EXCEPT ![Head(reqQ).id] = "open"]
  /\ ops' = IF Head(reqQ).data = NoData THEN ops ELSE [ops EXCEPT !.pop = @ + 1]
  /\ UNCHANGED <<server, durable, reqQ, dbPromise, initPromise, usedDataIDs,
                 run, call, rd, quota, reads, session, found, picks>>

\* The oldest request is an open and the database does not exist: it is
\* created and onupgradeneeded runs.  What the handler creates and puts
\* is held by the upgrade transaction until that commits.
IdbUpgrade ==
  /\ Task
  /\ reqQ # <<>>
  /\ Head(reqQ).kind = "open"
  /\ ~dbExists
  /\ ~upg.on
  /\ upg' = [on |-> TRUE, stores |-> Upgrade(Head(reqQ).data)]
  /\ ops' = IF Head(reqQ).data = NoData THEN ops ELSE [ops EXCEPT !.pop = @ + 1]
  /\ UNCHANGED <<server, durable, conns, reqQ, dbPromise, initPromise, usedDataIDs,
                 run, call, rd, quota, reads, session, found, picks>>

\* The oldest request is an open and succeeds: on a database that exists,
\* or when the upgrade transaction that creates it commits.  onsuccess
\* resolves the promise (line 93).
IdbOpen ==
  /\ Task
  /\ reqQ # <<>>
  /\ Head(reqQ).kind = "open"
  /\ dbExists \/ upg.on
  /\ conns' = [conns EXCEPT ![Head(reqQ).id] = "open"]
  /\ IF dbExists
     THEN UNCHANGED <<durable, picks>>
     ELSE /\ dbExists' = TRUE
          /\ stores' = upg.stores
          /\ picks' = NoPicks
  /\ upg' = NoUpgrade
  /\ reqQ' = Tail(reqQ)
  /\ UNCHANGED <<server, dbPromise, initPromise, usedDataIDs, run, call, rd,
                 quota, reads, session, ops, found>>

\* The oldest request is a delete (lines 109-115).  It waits for every
\* connection to be closed, and a closed connection for its transactions.
IdbDelete ==
  /\ Task
  /\ reqQ # <<>>
  /\ Head(reqQ).kind = "delete"
  /\ \A i \in ConnIds : conns[i] # "open"
  /\ \A k \in Readers : ~InTx(k)
  /\ dbExists' = FALSE
  /\ stores' = <<>>
  /\ picks' = NoPicks
  /\ run' = [run EXCEPT ![Head(reqQ).id].pc = "deleted"]
  /\ reqQ' = Tail(reqQ)
  /\ UNCHANGED <<server, conns, upg, dbPromise, initPromise, usedDataIDs, call, rd,
                 quota, reads, session, ops, found>>

\* ------------------------------------------------------------- environment
\* The page is closed and opened again: a new process over the same disk.
Restart ==
  /\ session < MaxSessions
  /\ session' = session + 1
  /\ stores0' = stores
  /\ reads' = quota
  /\ conns' = NoConns
  /\ reqQ' = <<>>
  /\ dbPromise' = 0
  /\ initPromise' = 0
  /\ usedDataIDs' = <<>>
  /\ run' = NoRuns
  /\ call' = NoCalls
  /\ rd' = NoRds
  /\ ops' = NoOps
  /\ picks' = NoPicks
  /\ upg' = NoUpgrade
  /\ prev' = IF initPromise # 0 /\ run[initPromise].pc = "rejected"
             THEN run[initPromise].err ELSE "none"
  /\ UNCHANGED <<server, durable, quota>>

\* The converter was run again: the server has another dataset.
Publish(d) ==
  /\ d # served
  /\ served' = d
  /\ UNCHANGED <<cvt, durable, idb, dbPromise, initPromise, run, call, reader,
                 session, ops, found>>

\* ------------------------------------------------------------ specification
InitRun(r) ==
  \/ FetchOk(r)
  \/ FetchNotOk(r)
  \/ JsonFails(r)
  \/ ProbeOpened(r)
  \/ MetaRead(r)
  \/ DeleteSucceeded(r)
  \/ PopulateOpened(r)

Reader(k) ==
  \/ \E s \in SheetNames : GetFromStore(k, s)
  \/ ReaderOpened(k)
  \/ KeysSuccess(k)
  \/ GetSuccess(k)
  \/ ReaderReturn(k)

Next ==
  \/ \E c \in Callers : InitAndCacheData(c)
  \/ \E r \in Callers : InitRun(r)
  \/ \E k \in Readers : Reader(k)
  \/ IdbUpgrade
  \/ IdbOpen
  \/ IdbDelete
  \/ Restart
  \/ \E d \in Datasets : Publish(d)

Spec == Init /\ [][Next]_vars

\* ------------------------------------------------------ storage failures
\* (a failing open whose upgrade keeps the stores and the meta record it
\* wrote, without the rows)
IdbOpenFailsNoRollback ==
  /\ Task
  /\ reqQ # <<>>
  /\ Head(reqQ).kind = "open"
  /\ conns' = [conns EXCEPT ![Head(reqQ).id] = "err"]
  /\ dbPromise' = 0
  /\ upg' = NoUpgrade
  /\ reqQ' = Tail(reqQ)
  /\ dbExists' = (dbExists \/ upg.on)
  /\ stores' = IF upg.on
               THEN [n \in DOMAIN upg.stores |->
                       IF n = META_STORE THEN upg.stores[n] ELSE <<>>]
               ELSE stores
  /\ UNCHANGED <<server, initPromise, run, call, reader, session, ops, found>>

\* The oldest request is an open and fails; an upgrade transaction that was
\* running is rolled back.  onerror forgets the memo (lines 94-98).
IdbOpenFails ==
  /\ Task
  /\ reqQ # <<>>
  /\ Head(reqQ).kind = "open"
  /\ conns' = [conns EXCEPT ![Head(reqQ).id] = "err"]
  /\ dbPromise' = 0
  /\ upg' = NoUpgrade
  /\ reqQ' = Tail(reqQ)
  /\ UNCHANGED <<server, durable, initPromise, run, call, reader, session, ops, found>>

\* The oldest request is a delete and fails (line 113): the run rejects.
IdbDeleteFails ==
  /\ Task
  /\ reqQ # <<>>
  /\ Head(reqQ).kind = "delete"
  /\ run' = [run EXCEPT ![Head(reqQ).id].pc = "rejected",
                        ![Head(reqQ).id].err = "WipeError"]
  /\ reqQ' = Tail(reqQ)
  /\ UNCHANGED <<server, durable, conns, upg, dbPromise, initPromise, call, reader,
                 session, ops, found>>

\* the probe's openDB() rejected (lines 181, 202-206)
ProbeOpenFailed(r) ==
  /\ run[r].pc = "probeOpen"
  /\ Rejected(run[r].aw)
  /\ StartRepopulate(r, 0, "ProbeError")
  /\ UNCHANGED <<server, durable, initPromise, call, reader, session, found>>

\* (a probe whose read error escapes the catch and rejects the run)
MetaReadFailsUncaught(r) ==
  /\ Task
  /\ run[r].pc = "probeMeta"
  /\ run' = [run EXCEPT ![r].pc = "rejected", ![r].err = "ProbeError"]
  /\ UNCHANGED <<server, durable, idb, dbPromise, initPromise, call, reader,
                 session, ops, found>>

\* reading the meta record failed (lines 196, 202-206)
MetaReadFails(r) ==
  /\ Task
  /\ run[r].pc = "probeMeta"
  /\ StartRepopulate(r, run[r].existingDB, "ProbeError")
  /\ UNCHANGED <<server, durable, initPromise, call, reader, session, found>>

\* openDB(data) rejected (line 220): the run rejects
PopulateFailed(r) ==
  /\ run[r].pc = "populating"
  /\ Rejected(run[r].aw)
  /\ run' = [run EXCEPT ![r].pc = "rejected", ![r].err = "PopulateError"]
  /\ UNCHANGED <<server, durable, idb, dbPromise, initPromise, call, reader,
                 session, ops, found>>

\* openDB() rejected (line 249)
ReaderOpenFailed(k) ==
  /\ rd[k].pc = "opening"
  /\ Rejected(rd[k].aw)
  /\ rd' = [rd EXCEPT ![k].pc = "rejected"]
  /\ UNCHANGED <<server, durable, idb, dbPromise, initPromise, usedDataIDs, run,
                 call, quota, reads, session, ops, found, picks>>

\* getAllKeys or get failed (lines 152-153, 259)
ReadFails(k) ==
  /\ Task
  /\ InTx(k)
  /\ rd' = [rd EXCEPT ![k].pc = "rejected"]
  /\ UNCHANGED <<server, durable, idb, dbPromise, initPromise, usedDataIDs, run,
                 call, quota, reads, session, ops, found, picks>>

Failure ==
  \/ IdbOpenFails
  \/ IdbDeleteFails
  \/ \E r \in Callers : ProbeOpenFailed(r)
  \/ \E r \in Callers : MetaReadFails(r)
  \/ \E r \in Callers : PopulateFailed(r)
  \/ \E k \in Readers : ReaderOpenFailed(k)
  \/ \E k \in Readers : ReadFails(k)

NextFault == Next \/ Failure

\* the run of a process that finds no database, or one without stores
FirstRun(r) ==
  \/ FetchOk(r)
  \/ FetchNotOk(r)
  \/ JsonFails(r)
  \/ ProbeOpened(r)
  \/ DeleteSucceeded(r)
  \/ PopulateOpened(r)

\* one process that calls initAndCacheData() once and then samples, over
\* storage that works: getFromStore() is called once that promise resolved
Sample(k, s) ==
  /\ initPromise # 0
  /\ run[initPromise].pc = "resolved"
  /\ GetFromStore(k, s)

NextSampler ==
  \/ InitAndCacheData(1)
  \/ FirstRun(1)
  \/ \E k \in Readers, s \in SheetNames : Sample(k, s)
  \/ \E k \in Readers : ReaderOpened(k)
  \/ \E k \in Readers : KeysSuccess(k)
  \/ \E k \in Readers : GetSuccess(k)
  \/ \E k \in Readers : ReaderReturn(k)
  \/ IdbUpgrade
  \/ IdbOpen
  \/ IdbDelete

InitSampler == Boot(SamplerDatasets, MaxPicks) /\ cvt = IdleCvt

SpecSampler == InitSampler /\ [][NextSampler]_vars

\* one process that installs an arbitrary dataset
NextPopulate ==
  \/ \E c \in Callers : InitAndCacheData(c)
  \/ \E r \in Callers : FirstRun(r)
  \/ IdbUpgrade
  \/ IdbOpen
  \/ IdbDelete

InitPopulate == Boot(AnyDatasets, 0) /\ cvt = IdleCvt

SpecPopulate == InitPopulate /\ [][NextPopulate]_vars

InitFault == Boot(Datasets, 1) /\ cvt = IdleCvt

SpecFault == InitFault /\ [][NextFault]_vars

\* ================================================================== claims
\* the meta record of a database (lines 83-91), and the version it holds
HasMeta(st) == META_STORE \in DOMAIN st /\ META_RECORD_ID \in DOMAIN st[META_STORE]
MetaVersionOf(st) == st[META_STORE][META_RECORD_ID].version

Called == {c \in Callers : call[c] # 0}
Settled(r) == run[r].pc \in {"resolved", "rejected"}

\* C1: however many initAndCacheData() calls a process makes, and whenever
\* it makes them, one fetch is issued, every call returns the one memoized
\* promise, and so every caller has the same outcome: the dataset that
\* fetch returned, or the same rejection.
C1_OneFetchOneOutcome ==
  /\ ops.fetch <= 1
  /\ Called # {} => ops.fetch = 1
  /\ \A c \in Called : call[c] = initPromise
  /\ \A c, d \in Called :
       /\ run[call[c]].pc = run[call[d]].pc
       /\ run[call[c]].data = run[call[d]].data
       /\ run[call[c]].err = run[call[d]].err

\* two calls were made and the promise they share has resolved with data
C1_Witness ==
  /\ Cardinality(Called) >= 2
  /\ \A c \in Called : run[call[c]].pc = "resolved" /\ run[call[c]].data \in Datasets

\* C2: reuse path.  A process that found the database installed with the
\* version its fetch returns, and whose probe of that database raised no
\* error, issues one fetch, no deleteDatabase and no populate, and the
\* object stores stay as the process found them.
C2_ReusePath ==
  \A r \in Callers :
    ( /\ run[r].pc \notin {"idle", "fetch", "rejected"}
      /\ run[r].err = "none"
      /\ HasMeta(stores0)
      /\ MetaVersionOf(stores0) = run[r].data.version )
    => /\ ops = [fetch |-> 1, del |-> 0, pop |-> 0]
       /\ run[r].pc \in {"probeOpen", "probeMeta", "resolved"}
       /\ dbExists
       /\ stores = stores0

\* a later process resolved its initialization on the reuse path
C2_Witness ==
  \E r \in Callers :
    /\ session > 1
    /\ run[r].pc = "resolved"
    /\ HasMeta(stores0)
    /\ MetaVersionOf(stores0) = run[r].data.version
    /\ stores0 = Populate(run[r].data)

\* C3 as amended: a process whose fetch returns a dataset of another version
\* than the installed one, and whose probe of the installed database raised
\* no error, wipes the database and repopulates it: when its initialization
\* has resolved, the object stores are exactly those populate makes of the
\* fetched dataset, and the meta record holds its version.  A further call
\* in the same process starts nothing: it returns the memoized promise, and
\* the run of the process stays the only one.
C3_VersionChangeNextProcess ==
  \A r \in Callers :
    ( /\ run[r].pc = "resolved"
      /\ run[r].err = "none"
      /\ HasMeta(stores0)
      /\ MetaVersionOf(stores0) # run[r].data.version )
    => /\ ops = [fetch |-> 1, del |-> 1, pop |-> 1]
       /\ dbExists
       /\ stores = Populate(run[r].data)
       /\ HasMeta(stores)
       /\ MetaVersionOf(stores) = run[r].data.version
       /\ \A c \in Called : call[c] = r

\* a later process found version t1 installed, fetched t2 and has resolved
C3_Witness ==
  \E r \in Callers :
    /\ session > 1
    /\ run[r].pc = "resolved"
    /\ HasMeta(stores0)
    /\ MetaVersionOf(stores0) = "t1"
    /\ run[r].data = DataT2
    /\ DOMAIN stores = {"0", META_STORE}

\* C3 as claimed, for the call made later in the same process: when the
\* first initialization has resolved and the server serves another version
\* than the installed one, once a further initAndCacheData() call has
\* returned its (resolved) promise the meta record holds the served version.
C3_SecondCallSameProcess ==
  [][ ( /\ \E c \in Callers : call[c] = 0 /\ call'[c] # 0
                              /\ run'[call'[c]].pc = "resolved"
        /\ initPromise # 0
        /\ run[initPromise].pc = "resolved"
        /\ HasMeta(stores)
        /\ served.version # MetaVersionOf(stores) )
      => ( HasMeta(stores') /\ MetaVersionOf(stores') = served.version ) ]_vars

\* C10: a run whose fetch reports a failure status, or whose body does not
\* parse, rejects in a step that leaves the database, the connections, the
\* request queue and _dbPromise alone; and a process whose run rejected so
\* has issued no deleteDatabase and no populate, has closed no connection,
\* and its object stores are as it found them.
C10_FetchFailureTouchesNothing ==
  /\ [][ \A r \in Callers :
           (run[r].pc = "fetch" /\ run'[r].pc = "rejected")
           => /\ run'[r].err \in {"FetchError", "ParseError"}
              /\ UNCHANGED <<dbExists, stores, conns, reqQ, dbPromise, ops>> ]_vars
  /\ [](\A r \in Callers :
          (run[r].pc = "rejected" /\ run[r].err \in {"FetchError", "ParseError"})
          => /\ ops.del = 0 /\ ops.pop = 0
             /\ \A i \in ConnIds : conns[i] # "closed"
             /\ stores = stores0)

\* a run rejected on its fetch while a handle was cached and the database
\* was installed
C10_Witness ==
  \E r \in Callers :
    /\ run[r].pc = "rejected"
    /\ run[r].err \in {"FetchError", "ParseError"}
    /\ dbPromise # 0
    /\ HasMeta(stores)

\* what the probe has to find for the run to keep the database
ReuseCondition(r) ==
  /\ DOMAIN stores # {}
  /\ HasMeta(stores)
  /\ MetaVersionOf(stores) = run[r].data.version

Probing(r) == run[r].pc \in {"probeOpen", "probeMeta"}

\* C9: the step that ends a run's probe takes the REUSE branch (the run
\* resolves; nothing is closed, deleted, populated or queued, and the probed
\* connection becomes the cached handle) exactly when the database has an
\* object store, has the meta store with the meta record, the record's
\* version is the fetched one, and the probe raised no error; in every other
\* case, an error of the open or of the read included, it takes the
\* REPOPULATE branch (the probed connection is closed and deleteDatabase is
\* called).
C9_ReconcilerDecision ==
  [][ \A r \in Callers :
        (Probing(r) /\ ~Probing(r)' /\ session' = session)
        => IF ReuseCondition(r) /\ run'[r].err = "none"
           THEN /\ run'[r].pc = "resolved"
                /\ dbPromise' = run[r].existingDB
                /\ UNCHANGED <<dbExists, stores, conns, reqQ, ops>>
           ELSE /\ run'[r].pc = "deleting"
                /\ ops' = [ops EXCEPT !.del = @ + 1]
                /\ reqQ' = Append(reqQ, [kind |-> "delete", id |-> r, data |-> NoData])
                /\ \A i \in ConnIds :
                     conns'[i] = IF i = run'[r].existingDB THEN "closed" ELSE conns[i]
                /\ UNCHANGED <<dbExists, stores, dbPromise>> ]_vars

\* both branches were taken, and REPOPULATE once for an error of the probe
\* on a database whose installed version is the fetched one
C9_Witness ==
  \E r \in Callers :
    /\ run[r].pc = "deleting"
    /\ run[r].err = "ProbeError"
    /\ ReuseCondition(r)
    /\ session > 1

\* ------------------------------------------------------------ the sampler
\* the keys of a store, and the picks made on it so far
KeysOf(s) == IF s \in DOMAIN stores THEN DOMAIN stores[s] ELSE {}
Cycle(i, n) == (i - 1) \div n

\* C4: on a store that holds a fixed set of N >= 1 keys, with a used set
\* that starts empty, the picks numbered k*N+1 .. (k+1)*N are N distinct
\* keys of the store, for every cycle k: no key is picked twice within a
\* cycle, so a full cycle is a permutation of the keys; and every call that
\* reads the keys of such a store picks one, so the next cycle starts by
\* itself when the used set is full.
C4_SamplerCycle ==
  /\ [](\A s \in SheetNames :
          LET n == Cardinality(KeysOf(s))
          IN  \A i, j \in 1..Len(picks[s]) :
                /\ picks[s][i] \in KeysOf(s)
                /\ (i # j /\ Cycle(i, n) = Cycle(j, n)) => picks[s][i] # picks[s][j])
  /\ [][\A k \in Readers :
          (rd[k].pc = "keys" /\ rd'[k].pc # "keys" /\ KeysOf(rd[k].store) # {})
          => /\ Len(picks'[rd[k].store]) = Len(picks[rd[k].store]) + 1
             /\ usedDataIDs'[rd[k].store] = 
                  {picks'[rd[k].store][i] : i \in
                     { i \in 1..Len(picks'[rd[k].store]) :
                         Cycle(i, Cardinality(KeysOf(rd[k].store)))
                           = Cycle(Len(picks'[rd[k].store]),
                                   Cardinality(KeysOf(rd[k].store))) }}]_vars

\* a store of two keys or more has been sampled through two full cycles
\* and into the third
C4_Witness ==
  \E s \in SheetNames :
    /\ Cardinality(KeysOf(s)) >= 2
    /\ Len(picks[s]) >= 2 * Cardinality(KeysOf(s)) + 1

\* the records of collection s of a dataset, and a stored value that is
\* record r, with nothing but a generated identifier added
RecordsOf(data, s) ==
  IF s \in DOMAIN data.sheets
  THEN {data.sheets[s][i] : i \in 1..Len(data.sheets[s])} ELSE {}
RoundTrip(r, v) ==
  IF KEY_ID \in DOMAIN r
  THEN v = r
  ELSE /\ DOMAIN v = DOMAIN r \cup {KEY_ID}
       /\ \A f \in DOMAIN r : v[f] = r[f]

\* C5: once initAndCacheData() has resolved, a getFromStore(c) call on a
\* collection c that is not empty resolves to a record of collection c of
\* the fetched dataset: never to undefined, whatever key the populate step
\* gave the record, 0 included.
C5_ReadReturnsRecord ==
  \A k \in Readers :
    (rd[k].pc = "done" /\ rd[k].late /\ KeysOf(rd[k].store) # {})
    => /\ rd[k].result # <<>>
       /\ \E r \in RecordsOf(run[initPromise].data, rd[k].store) :
            RoundTrip(r, rd[k].result[1])

Populated(r) == run[r].pc = "resolved" /\ ops.pop = 1
HasId(r) == KEY_ID \in DOMAIN r

C8_PopulateWritesEveryRecord ==
  \A r \in Callers : Populated(r) =>
    \A s \in DOMAIN run[r].data.sheets :
      Cardinality(DOMAIN stores[s]) = Len(run[r].data.sheets[s])

\* ------------------------------------------------------------- recovery
\* the run of the process before this one rejected in its rebuild
FailedRebuild == prev \in {"WipeError", "PopulateError"}

\* a database that reconciliation must not reuse for dataset `data`
Stale(st, data) == ~HasMeta(st) \/ MetaVersionOf(st) # data.version

FullyPresent(st, d) ==
  \A s \in DOMAIN d.sheets :
    /\ s \in DOMAIN st
    /\ \A rec \in RecordsOf(d, s) : \E key \in DOMAIN st[s] : RoundTrip(rec, st[s][key])

ServesOpenWithoutData ==
  /\ reqQ # <<>>
  /\ Head(reqQ).kind = "open"
  /\ Head(reqQ).data = NoData
  /\ upg' # upg \/ reqQ' # reqQ

\* C13: no step of a getFromStore() call, and no step in which IndexedDB
\* serves an openDB() made without data, fetches, deletes the database or
\* populates it; the stores and their rows, the meta record with them, are
\* after the step what they were before it.  This holds too when the open
\* creates the database: it then has no stores.
C13_ReadFrame ==
  [][(session' = session /\ (rd' # rd \/ ServesOpenWithoutData))
     => /\ stores' = stores
        /\ ops' = ops
        /\ served' = served]_vars

\* getFromStore() was called before any run, its openDB() created the
\* database, and the call has rejected: there are no stores
C13_Witness ==
  \E k \in Readers :
    /\ rd[k].pc = "rejected"
    /\ initPromise = 0
    /\ session = 1
    /\ dbExists
    /\ stores = <<>>
    /\ ops = NoOps

\* ------------------------------------------------------ the handle memo
\* the memoized promise has resolved with a handle
HandleResolved == dbPromise # 0 /\ Resolved(dbPromise)

\* call k of getFromStore, or the probe of run r, calls openDB() in this step
ReaderCallsOpenDB(k) == rd[k].pc = "idle" /\ rd'[k].pc = "opening"
ProbeCallsOpenDB(r) == run[r].pc = "fetch" /\ run'[r].pc = "probeOpen"

ReaderHandleSettles(k) == rd[k].pc = "opening" /\ rd'[k].pc # "opening"

\* call k resolves in this step
ReaderResolves(k) == rd[k].pc # "done" /\ rd'[k].pc = "done"

\* C15 as stated: a getFromStore(c) call invoked when the database is
\* absent or has no store c never resolves.
C15_AbsentAtCallRejects ==
  [][\A k \in Readers :
       (session' = session /\ rd[k].absent) => ~ReaderResolves(k)]_vars

\* C15, amended: a getFromStore(c) call whose handle resolves while the
\* database has no store c rejects; a transaction of a call runs only on a
\* store that exists, and so does the step that resolves it; and a call
\* invoked when store c was missing resolves only when this process has
\* populated the database in between.
C15_MissingStoreRejects ==
  /\ [](\A k \in Readers : InTx(k) => rd[k].store \in DOMAIN stores)
  /\ [][\A k \in Readers :
          session' = session
          => /\ (ReaderHandleSettles(k) /\ rd[k].store \notin DOMAIN stores)
                  => rd'[k].pc = "rejected"
             /\ ReaderResolves(k) => rd[k].store \in DOMAIN stores
             /\ (ReaderResolves(k) /\ rd[k].absent)
                  => ops.pop = 1 /\ HasMeta(stores)]_vars

\* a call made before anything was stored has rejected on the open handle
\* of a database without stores
C15_Witness ==
  \E k \in Readers :
    /\ rd[k].pc = "rejected"
    /\ rd[k].absent
    /\ conns[rd[k].aw] = "open"
    /\ dbExists
    /\ rd[k].store \notin DOMAIN stores
    /\ ops.pop = 0

\* -------------------------------------------- one used set per collection
\* the used set of store d, and the keys its next pick chooses from
UsedOf(d) == IF d \in DOMAIN usedDataIDs THEN usedDataIDs[d] ELSE {}
Candidates(d) == Available(UsedAfterReset(UsedOf(d), KeysOf(d)), KeysOf(d))

\* the pick of call k on its store happens in this step
ReaderPicks(k) == rd[k].pc = "keys" /\ rd'[k].pc # "keys"

\* C16: the pick of a getFromStore(c) call leaves the used set of every
\* other store d as it was, entry for entry, and with it the keys the next
\* pick on d chooses from; so also when the pick starts a new cycle of c.
\* No other step of a call changes any used set.
C16_PerCollection ==
  [][\A k \in Readers :
       (session' = session /\ rd'[k] # rd[k])
       => \A d \in SheetNames :
            (d # rd[k].store \/ ~ReaderPicks(k))
            => /\ (d \in DOMAIN usedDataIDs') = (d \in DOMAIN usedDataIDs)
               /\ UsedOf(d)' = UsedOf(d)
               /\ Candidates(d)' = Candidates(d)]_vars

\* a call has just started a new cycle of store c (every key of c was
\* served, and the used set of c is the one key it picked) while store d
\* is part way through its cycle
C16_Witness ==
  \E k \in Readers, c \in SheetNames, d \in SheetNames :
    /\ c # d
    /\ rd[k].pc = "get"
    /\ rd[k].store = c
    /\ Len(picks[c]) = Cardinality(KeysOf(c)) + 1
    /\ UsedOf(c) = {rd[k].key}
    /\ UsedOf(d) # {}
    /\ UsedOf(d) # KeysOf(d)
    /\ \A j \in Readers \ {k} : rd[j].pc = "idle"

\* ------------------------------------------------------------ the converter
\* Rows as sheet_to_json hands them over, the sheets of a workbook, and the
\* workbooks the converter is given.
SheetRowKinds == {[text |-> "a"], [id |-> 1, text |-> "b"]}
SheetsOfRows == UNION { [1..n -> SheetRowKinds] : n \in 0..MaxSheetRows }
Workbooks == UNION { [1..n -> SheetsOfRows] : n \in 1..MaxSheets }

\* Times the clock may show: the epoch, the last millisecond of a leap day,
\* the noon of a last day of a leap year, and a morning of a November.
Instants ==
  { [day |-> 0, ms |-> 0],
    [day |-> 11016, ms |-> 86399999],
    [day |-> 20088, ms |-> 43200000],
    [day |-> 20759, ms |-> 8035123] }

Later(a, b) == a.day < b.day \/ (a.day = b.day /\ a.ms < b.ms)

DigitChar == <<"0", "1", "2", "3", "4", "5", "6", "7", "8", "9">>

\* String(n) for a sheet index n (line 43)
RECURSIVE Str(_)
Str(n) == IF n < 10 THEN DigitChar[n + 1]
          ELSE Str(n \div 10) \o DigitChar[(n % 10) + 1]

\* the last w decimal digits of n, as characters
RECURSIVE Pad(_, _)
Pad(n, w) == IF w = 0 THEN <<>>
             ELSE Pad(n \div 10, w - 1) \o <<DigitChar[(n % 10) + 1]>>

\* year, month and day of month of a day since the epoch
CivilFromDays(days) ==
  LET z   == days + 719468
      era == z \div 146097
      doe == z - era * 146097
      yoe == (doe - doe \div 1460 + doe \div 36524 - doe \div 146096) \div 365
      doy == doe - (365 * yoe + yoe \div 4 - yoe \div 100)
      mp  == (5 * doy + 2) \div 153
      m   == IF mp < 10 THEN mp + 3 ELSE mp - 9
  IN  [y |-> yoe + era * 400 + (IF m <= 2 THEN 1 ELSE 0),
       m |-> m,
       d |-> doy - (153 * mp + 2) \div 5 + 1]

\* Date.prototype.toISOString (line 71): YYYY-MM-DDTHH:mm:ss.sssZ, as the
\* sequence of its characters
toISOString(t) ==
  LET c == CivilFromDays(t.day)
  IN  Pad(c.y, 4) \o <<"-">> \o Pad(c.m, 2) \o <<"-">> \o Pad(c.d, 2) \o <<"T">>
      \o Pad(t.ms \div 3600000, 2) \o <<":">> \o Pad((t.ms \div 60000) % 60, 2)
      \o <<":">> \o Pad((t.ms \div 1000) % 60, 2) \o <<".">> \o Pad(t.ms % 1000, 3)
      \o <<"Z">>

\* (sheets keyed from "1")
ParseWorkbookFromOne(wb) ==
  [k \in {Str(i) : i \in 1..Len(wb)} |-> wb[CHOOSE i \in 1..Len(wb) : Str(i) = k]]

\* parseWorkbook (lines 28-46): the rows of sheet number i under String(i)
ParseWorkbook(wb) ==
  [k \in {Str(i - 1) : i \in 1..Len(wb)} |->
     wb[CHOOSE i \in 1..Len(wb) : Str(i - 1) = k]]

\* `parsed.version = ...` (line 71)
Stamp(parsed, v) ==
  [k \in DOMAIN parsed \cup {"version"} |-> IF k = "version" THEN v ELSE parsed[k]]

\* (a convert that writes its output before it looks for the input)
ConvertCallWritesFirst(c) ==
  IF c.input = <<>>
  THEN [c EXCEPT !.pc = "threw", !.err = "Input file not found", !.runs = @ + 1,
                 !.output = <<Stamp(<<>>, toISOString(c.now))>>, !.writes = @ + 1]
  ELSE LET doc == Stamp(ParseWorkbook(c.input[1]), toISOString(c.now))
       IN  [c EXCEPT !.pc = "returned", !.err = "", !.runs = @ + 1,
                     !.parses = @ + 1, !.output = <<doc>>, !.writes = @ + 1,
                     !.sheets = Cardinality(DOMAIN doc)]

\* convert(INPUT, OUTPUT) (lines 64-78) on the files and the clock of c;
\* the message of the error is kept without the path
ConvertCall(c) ==
  IF c.input = <<>>
  THEN [c EXCEPT !.pc = "threw", !.err = "Input file not found", !.runs = @ + 1]
  ELSE LET doc == Stamp(ParseWorkbook(c.input[1]), toISOString(c.now))
       IN  [c EXCEPT !.pc = "returned", !.err = "", !.runs = @ + 1,
                     !.parses = @ + 1, !.output = <<doc>>, !.writes = @ + 1,
                     !.sheets = Cardinality(DOMAIN doc)]

\* the script is run (lines 84-92)
Convert ==
  /\ cvt.runs < MaxRuns
  /\ cvt' = ConvertCall(cvt)
  /\ UNCHANGED <<served, durable, idb, dbPromise, initPromise, run, call, reader,
                 session, ops, found>>

\* time passes
Tick(t) ==
  /\ Later(cvt.now, t)
  /\ cvt' = [cvt EXCEPT !.now = t]
  /\ UNCHANGED <<served, durable, idb, dbPromise, initPromise, run, call, reader,
                 session, ops, found>>

\* INPUT names a file that is not there (test, lines 69-74)
RemoveInput ==
  /\ cvt.input # <<>>
  /\ cvt' = [cvt EXCEPT !.input = <<>>]
  /\ UNCHANGED <<served, durable, idb, dbPromise, initPromise, run, call, reader,
                 session, ops, found>>

\* the generated file is removed (test, lines 34-38)
RemoveOutput ==
  /\ cvt.output # <<>>
  /\ cvt' = [cvt EXCEPT !.output = <<>>]
  /\ UNCHANGED <<served, durable, idb, dbPromise, initPromise, run, call, reader,
                 session, ops, found>>

NextConvert ==
  \/ Convert
  \/ \E t \in Instants : Tick(t)
  \/ RemoveInput
  \/ RemoveOutput

\* the converter alone, given any workbook or none, at any time
InitConvert ==
  /\ Boot({DataT1}, 0)
  /\ cvt \in { [IdleCvt EXCEPT !.input = f, !.now = t] :
                 f \in {<<>>} \cup {<<wb>> : wb \in Workbooks}, t \in Instants }

SpecConvert == InitConvert /\ [][NextConvert]_vars

\* ----------------------------------------------- reading the version back
IsDigit(c) == \E i \in 1..10 : DigitChar[i] = c
DigitOf(c) == (CHOOSE i \in 1..10 : DigitChar[i] = c) - 1

\* the number written at positions a..b of s
RECURSIVE Num(_, _, _)
Num(s, a, b) == IF a > b THEN 0 ELSE Num(s, a, b - 1) * 10 + DigitOf(s[b])

LeapYear(y) == (y % 4 = 0 /\ y % 100 # 0) \/ y % 400 = 0
DaysInMonth(y, m) ==
  IF m = 2 THEN (IF LeapYear(y) THEN 29 ELSE 28)
  ELSE IF m \in {4, 6, 9, 11} THEN 30 ELSE 31

\* the day since the epoch of a year, month and day of month
DaysFromCivil(y, m, d) ==
  LET yy  == IF m <= 2 THEN y - 1 ELSE y
      era == yy \div 400
      yoe == yy - era * 400
      mp  == IF m > 2 THEN m - 3 ELSE m + 9
      doy == (153 * mp + 2) \div 5 + d - 1
      doe == yoe * 365 + yoe \div 4 - yoe \div 100 + doy
  IN  era * 146097 + doe - 719468

\* `new Date(obj.version)` (test, line 65) on a string of the date-time
\* format: <<the time>>, or <<>> for an invalid date
DateParse(s) ==
  IF /\ Len(s) = 24
     /\ \A i \in {1, 2, 3, 4, 6, 7, 9, 10, 12, 13, 15, 16, 18, 19, 21, 22, 23} :
          IsDigit(s[i])
     /\ s[5] = "-" /\ s[8] = "-" /\ s[11] = "T" /\ s[14] = ":" /\ s[17] = ":"
     /\ s[20] = "." /\ s[24] = "Z"
  THEN LET y  == Num(s, 1, 4)
           m  == Num(s, 6, 7)
           d  == Num(s, 9, 10)
           h  == Num(s, 12, 13)
           mi == Num(s, 15, 16)
           sc == Num(s, 18, 19)
           ms == Num(s, 21, 23)
       IN  IF /\ m \in 1..12
              /\ d \in 1..DaysInMonth(y, m)
              /\ h <= 23 /\ mi <= 59 /\ sc <= 59
           THEN <<[day |-> DaysFromCivil(y, m, d),
                   ms  |-> ((h * 60 + mi) * 60 + sc) * 1000 + ms]>>
           ELSE <<>>
  ELSE <<>>

\* C17: a run of the converter on an input path where no file is fails
\* with 'Input file not found'; it parses nothing and writes nothing, and
\* the output file is after it what it was before: not there, or with the
\* content it had.
C17_MissingInput ==
  [][(cvt'.runs = cvt.runs + 1 /\ cvt.input = <<>>)
     => /\ cvt'.pc = "threw"
        /\ cvt'.err = "Input file not found"
        /\ cvt'.parses = cvt.parses
        /\ cvt'.writes = cvt.writes
        /\ cvt'.output = cvt.output
        /\ cvt'.sheets = cvt.sheets]_vars

\* the converter wrote its output in one run and failed in the next, the
\* input gone: the output of the first run is still there
C17_Witness ==
  /\ cvt.pc = "threw"
  /\ cvt.err = "Input file not found"
  /\ cvt.input = <<>>
  /\ cvt.runs = 2
  /\ cvt.writes = 1
  /\ cvt.output # <<>>

InFlight == initPromise # 0 /\ run[initPromise].pc \notin {"idle", "resolved", "rejected"}

\* C19: a process calls deleteDatabase at most once and populates at most
\* once, however many times initAndCacheData() is called; the call is made
\* by the run the init memo holds, while that run has not settled.
C19_OneWipePerProcess ==
  /\ [](ops.del <= 1 /\ ops.pop <= 1)
  /\ [](Cardinality({i \in 1..Len(reqQ) : reqQ[i].kind = "delete"}) <= 1)
  /\ [][(session' = session /\ ops'.del # ops.del)
        => /\ ops'.del = ops.del + 1
           /\ InFlight
           /\ run'[initPromise].pc = "deleting"
           /\ reqQ' = Append(reqQ, [kind |-> "delete", id |-> initPromise,
                                    data |-> NoData])]_vars

\* initAndCacheData() was called twice in a process that found a stale
\* database: the run has wiped and populated once and resolved
C19_Witness ==
  /\ session = 2
  /\ \A c \in Callers : call[c] = initPromise
  /\ initPromise # 0
  /\ run[initPromise].pc = "resolved"
  /\ ops.del = 1
  /\ ops.pop = 1

\* ------------------------------------------- reading during a repopulation
\* the run has called deleteDatabase() and has not yet its new connection
Repopulating == InFlight /\ run[initPromise].pc \in {"deleting", "deleted", "populating"}

\* C20: a getFromStore(c) call whose handle resolves while the run is
\* wiping and populating, store c being on disk at that moment, does not
\* reject: it gets its transaction on the store.
C20_OverlappingReadersResolve ==
  [][\A k \in Readers :
       (/\ session' = session
        /\ Repopulating
        /\ ReaderHandleSettles(k)
        /\ rd[k].store \in DOMAIN stores)
       => rd'[k].pc = "keys"]_vars

\* ---------------------------------------------------------- no partial read
\* the oldest request is an openDB(data) and its promise resolves in this step
PopulatingOpenResolves ==
  /\ reqQ # <<>>
  /\ Head(reqQ).kind = "open"
  /\ Head(reqQ).data # NoData
  /\ conns[Head(reqQ).id] = "queued"
  /\ conns'[Head(reqQ).id] = "open"

CallsDeleteDatabase == session' = session /\ ops'.del = ops.del + 1

\* C22: in the step in which the run calls deleteDatabase(), the only
\* connection of the process that was open is the one the probe got, and
\* the step has closed it before the call: with the call made, no
\* connection of the process is open.
C22_ClosedBeforeWipe ==
  [][CallsDeleteDatabase
     => /\ \A i \in ConnIds : conns[i] = "open" => i = run'[initPromise].existingDB
        /\ \A i \in ConnIds : conns'[i] # "open"]_vars

\* the run has closed the connection that its probe shared with an
\* earlier getFromStore() call, and has called deleteDatabase()
C22_Witness ==
  \E r \in Callers, k \in Readers :
    /\ run[r].pc = "deleting"
    /\ run[r].existingDB # 0
    /\ conns[run[r].existingDB] = "closed"
    /\ rd[k].aw = run[r].existingDB
    /\ rd[k].pc # "opening"
    /\ ~rd[k].late
    /\ \A i \in ConnIds : conns[i] # "open"

\* ------------------------------------------- what a resolved run leaves
\* run r resolves in this step
RunResolves(r) == session' = session /\ run[r].pc # "resolved" /\ run'[r].pc = "resolved"

\* C23: when the run resolves with its dataset, on the reuse path and on
\* the repopulate path, the meta record on disk holds the version of that
\* dataset, and the memoized handle is a resolved, open connection.
C23_ResolvedMeansInstalled ==
  [][\A r \in Callers :
       RunResolves(r)
       => /\ dbExists'
          /\ HasMeta(stores')
          /\ MetaVersionOf(stores') = run'[r].data.version
          /\ dbPromise' # 0
          /\ conns'[dbPromise'] = "open"]_vars

\* ------------------------------------------------------ the persisted layout
\* Datasets of any collection names out of "0", "1" and the meta store's own
\* name, each collection without rows, with a row, or with a row that
\* carries an id.
LayoutNames == {"0", "1", META_STORE}
LayoutRows == {<<>>, <<[text |-> "a"]>>, <<[id |-> 1, text |-> "b"]>>}
LayoutDatasets ==
  UNION { { [version |-> "t1", sheets |-> sh] : sh \in [names -> LayoutRows] } :
            names \in SUBSET LayoutNames }

InitLayout == Boot(LayoutDatasets, 0) /\ cvt = IdleCvt

\* one process that installs a dataset of any collection names
SpecLayout == InitLayout /\ [][NextPopulate]_vars

\* C24: once a run has populated the database with its dataset of N
\* collections, the database has N collection stores, named as the
\* collections are, and one more store, the meta store, whose one record
\* has the sentinel key.
C24_Layout ==
  \A r \in Callers :
    Populated(r)
    => /\ DOMAIN stores \ {META_STORE} = DOMAIN run[r].data.sheets
       /\ Cardinality(DOMAIN stores) = Cardinality(DOMAIN run[r].data.sheets) + 1
       /\ META_STORE \in DOMAIN stores
       /\ DOMAIN stores[META_STORE] = {META_RECORD_ID}

\* ------------------------------------------------------ overlapping samplers
\* C25: the pick of a call reads the used set, filters, picks and marks in
\* one step: the key it picks was not in the used set it read, and is in
\* the used set the step leaves.  So of the calls that are in flight
\* together on one store, within the first cycle of the store from an
\* empty used set, no two hold the same key, and the keys picked in that
\* cycle are pairwise distinct.
C25_OverlappingPicksDistinct ==
  /\ [](\A j \in Readers, k \in Readers :
          (/\ j # k
           /\ rd[j].pc = "get" /\ rd[k].pc = "get"
           /\ rd[j].store = rd[k].store
           /\ Len(picks[rd[k].store]) <= Cardinality(KeysOf(rd[k].store)))
          => rd[j].key # rd[k].key)
  /\ [](\A s \in SheetNames :
          \A i \in 1..Len(picks[s]), j \in 1..Len(picks[s]) :
            (i < j /\ j <= Cardinality(KeysOf(s))) => picks[s][i] # picks[s][j])
  /\ [][\A k \in Readers :
          (ReaderPicks(k) /\ picks' # picks)
          => LET s      == rd[k].store
                 picked == picks'[s][Len(picks'[s])]
                 used   == UsedAfterReset(UsedOf(s), KeysOf(s))
             IN  /\ picked \notin used
                 /\ usedDataIDs'[s] = used \cup {picked}]_vars

\* two calls are in flight together on one store, each with the key it
\* picked, in the first cycle of the store
C25_Witness ==
  \E j \in Readers, k \in Readers :
    /\ j # k
    /\ rd[j].pc = "get" /\ rd[k].pc = "get"
    /\ rd[j].store = rd[k].store
    /\ Len(picks[rd[k].store]) = 2
    /\ Cardinality(KeysOf(rd[k].store)) >= 2
    /\ rd[j].key # rd[k].key

\* ------------------------------------------- the used set and the live keys
\* C26: once the run has resolved, every key in the used set of a store is
\* a key of that store as it is on disk, also when getFromStore() calls
\* were made in the process before the run repopulated the database.
C26_UsedWithinLiveKeys ==
  (initPromise # 0 /\ run[initPromise].pc = "resolved")
  => \A s \in DOMAIN usedDataIDs : usedDataIDs[s] \subseteq KeysOf(s)

\* ------------------------------------------------ the sampler's candidates
\* the keys a store or a used set can hold
KeyIds == 0 .. (MaxRows + 1)

\* the getAllKeys callback of the call k runs (lines 126-151)
SamplerResolves(k) == rd[k].pc = "keys" /\ rd'[k].pc \in {"get", "done"}

\* C27: for every key set of at least one key and every used set, keys that
\* the store does not have among them, the candidates left after the size
\* test are not empty; and the sampler resolves without a key exactly when
\* the store has no key.
C27_CandidatesNonEmpty ==
  /\ \A used \in SUBSET KeyIds, keys \in SUBSET KeyIds :
       keys # {} => Available(UsedAfterReset(used, keys), keys) # {}
  /\ [](\A s \in DOMAIN stores : KeysOf(s) # {} => Candidates(s) # {})
  /\ [][\A k \in Readers :
          SamplerResolves(k) => (picks' = picks <=> KeysOf(rd[k].store) = {})]_vars

\* a call holds a key it picked from the store while the used set of the
\* store had, and still has, a key the store does not have
C27_Witness ==
  \E k \in Readers :
    /\ rd[k].pc = "get"
    /\ rd[k].key \in KeysOf(rd[k].store)
    /\ UsedOf(rd[k].store) \ KeysOf(rd[k].store) # {}
    /\ rd[k].key \in UsedOf(rd[k].store)

\* ------------------------------------------- the cached handle at rest
\* C28: whenever no initAndCacheData() run is in flight (none was started,
\* or the run has resolved or rejected, a failed deleteDatabase or a failed
\* populate included), a resolved `_dbPromise` holds no closed connection.
C28_NoClosedHandleAtRest ==
  (~InFlight /\ HandleResolved) => conns[dbPromise] # "closed"

\* ------------------------------- the module that wipes on every page load
\* src/db/dataCache.js: initAndCacheData() deletes the database and
\* populates it again without looking at what is on disk; it has no used
\* set.  One process, storage that works.

\* the rows of a sheet under the keys Object.keys gives them (lines 64-69):
\* the indices of the array from 0, each standing for its decimal string
WipeRowsByKey(rows) == [key \in 0..(Len(rows) - 1) |-> rows[key + 1]]

\* what onupgradeneeded does (lines 47-77): the meta store is created with
\* or without data; with data, one store per sheet with its rows, and the
\* meta record.  (For data without a sheet named as the meta store.)
WipeUpgrade(data) ==
  IF data = NoData
  THEN [n \in {META_STORE} |-> <<>>]
  ELSE [n \in DOMAIN data.sheets \cup {META_STORE} |->
          IF n = META_STORE
          THEN Upsert(<<>>, META_RECORD_ID, MetaRec(data.version))
          ELSE WipeRowsByKey(data.sheets[n])]

\* openDB(data) returning promise p (lines 41-46, 78-86): the same memo
WipeOpenDB(data, p) == OpenDB(data, p)

\* initAndCacheData() called (lines 109-113, 130)
WipeInitAndCacheData(c) == InitAndCacheData(c)

\* the response is ok and its body parses (lines 113-120): deleteDatabase()
\* is called, whatever connections the process has
WipeFetchOk(r) ==
  /\ Task
  /\ run[r].pc = "fetch"
  /\ run' = [run EXCEPT ![r].pc = "deleting", ![r].data = served]
  /\ reqQ' = Append(reqQ, [kind |-> "delete", id |-> r, data |-> NoData])
  /\ ops' = [ops EXCEPT !.del = @ + 1]
  /\ UNCHANGED <<server, durable, conns, upg, dbPromise, initPromise, call, reader,
                 session, found>>

\* the response is not ok (line 114)
WipeFetchNotOk(r) == FetchNotOk(r)

\* deleteDatabase() resolved (lines 120-124)
WipeDeleteSucceeded(r) ==
  /\ run[r].pc = "deleted"
  /\ \E p \in ConnIds :
       /\ OpenNew(run[r].data, p)
       /\ run' = [run EXCEPT ![r].pc = "populating", ![r].aw = p]
  /\ UNCHANGED <<server, durable, initPromise, call, reader, session, ops, found>>

\* openDB(data) resolved (lines 124-127)
WipePopulateOpened(r) ==
  /\ run[r].pc = "populating"
  /\ Resolved(run[r].aw)
  /\ dbPromise' = run[r].aw
  /\ run' = [run EXCEPT ![r].pc = "resolved"]
  /\ UNCHANGED <<server, durable, idb, initPromise, call, reader, session, ops, found>>

\* getFromStore(storeName) called (lines 143-146)
WipeGetFromStore(k, s) ==
  /\ Task
  /\ rd[k].pc = "idle"
  /\ \A j \in Readers : j < k => rd[j].pc # "idle"
  /\ reads > 0
  /\ \E p \in ConnIds :
       /\ WipeOpenDB(NoData, p)
       /\ rd' = [rd EXCEPT ![k] = [IdleRd EXCEPT !.pc = "opening", !.store = s,
                                                 !.aw = p]]
  /\ reads' = reads - 1
  /\ UNCHANGED <<server, durable, initPromise, usedDataIDs, run, call, session,
                 quota, ops, found, picks>>

\* openDB() resolved (lines 146-151, 175-177): db.transaction throws on a
\* closed connection and on a store the database does not have
WipeReaderOpened(k) ==
  /\ rd[k].pc = "opening"
  /\ Resolved(rd[k].aw)
  /\ rd' = [rd EXCEPT ![k].pc =
              IF conns[rd[k].aw] = "closed" \/ rd[k].store \notin DOMAIN stores
              THEN "rejected" ELSE "keys"]
  /\ UNCHANGED <<server, durable, idb, dbPromise, initPromise, usedDataIDs, run,
                 call, quota, reads, session, ops, found, picks>>

\* getAllKeys succeeded (lines 156-162): any key of the store
WipeKeysSuccess(k) ==
  /\ Task
  /\ rd[k].pc = "keys"
  /\ LET keys == DOMAIN stores[rd[k].store]
     IN  IF keys = {}
         THEN rd' = [rd EXCEPT ![k].pc = "done", ![k].result = <<>>]
         ELSE \E picked \in keys :
                rd' = [rd EXCEPT ![k].pc = "get", ![k].key = picked]
  /\ UNCHANGED <<server, durable, idb, dbPromise, initPromise, usedDataIDs, run,
                 call, quota, reads, session, ops, found, picks>>

\* store.get(picked) succeeded (lines 162-163)
WipeGetSuccess(k) ==
  /\ Task
  /\ rd[k].pc = "get"
  /\ rd' = [rd EXCEPT ![k].pc = "done",
                      ![k].result = StoreGet(stores, rd[k].store, rd[k].key)]
  /\ UNCHANGED <<server, durable, idb, dbPromise, initPromise, usedDataIDs, run,
                 call, quota, reads, session, ops, found, picks>>

\* the caller has its answer
WipeReaderReturn(k) == ReaderReturn(k)

\* The oldest request is an open and the database does not exist: it is
\* created and onupgradeneeded runs (lines 46-77).
WipeIdbUpgrade ==
  /\ Task
  /\ reqQ # <<>>
  /\ Head(reqQ).kind = "open"
  /\ ~dbExists
  /\ ~upg.on
  /\ upg' = [on |-> TRUE, stores |-> WipeUpgrade(Head(reqQ).data)]
  /\ ops' = IF Head(reqQ).data = NoData THEN ops ELSE [ops EXCEPT !.pop = @ + 1]
  /\ UNCHANGED <<server, durable, conns, reqQ, dbPromise, initPromise, usedDataIDs,
                 run, call, rd, quota, reads, session, found, picks>>

WipeRun(r) ==
  \/ WipeFetchOk(r)
  \/ WipeFetchNotOk(r)
  \/ WipeDeleteSucceeded(r)
  \/ WipePopulateOpened(r)

\* what a getFromStore() call does once it was made
WipeReaderStep(k) ==
  \/ WipeReaderOpened(k)
  \/ WipeKeysSuccess(k)
  \/ WipeGetSuccess(k)
  \/ WipeReaderReturn(k)

NextWipe ==
  \/ \E c \in Callers : WipeInitAndCacheData(c)
  \/ \E r \in Callers : WipeRun(r)
  \/ \E k \in Readers, s \in SheetNames : WipeGetFromStore(k, s)
  \/ \E k \in Readers : WipeReaderStep(k)
  \/ WipeIdbUpgrade
  \/ IdbOpen
  \/ IdbDelete

\* The fetch completes; a storage request is served when the database is
\* not blocked for it (an open waits for the requests before it, a delete
\* for every connection to be closed); every continuation runs.  When the
\* page calls initAndCacheData() and getFromStore() is up to the page.
FairWipe ==
  /\ \A r \in Callers : WF_vars(WipeRun(r))
  /\ \A k \in Readers : WF_vars(WipeReaderStep(k))
  /\ WF_vars(WipeIdbUpgrade)
  /\ WF_vars(IdbOpen)
  /\ WF_vars(IdbDelete)

InitWipe == Boot(Datasets, MaxReads) /\ cvt = IdleCvt

SpecWipe == InitWipe /\ [][NextWipe]_vars /\ FairWipe

\* the run has resolved or rejected
InitSettled == initPromise # 0 /\ Settled(initPromise)

\* C29: in the module that wipes on every page load, a run that was
\* started settles, whatever getFromStore() calls are made and whenever,
\* as long as the fetch completes and every storage request that the
\* database is not blocked for is served.
C29_InitSettles == (initPromise # 0) ~> InitSettled

\* ------------------------------------------------- the reported sheet count
\* C30: the `sheets` field of what convert() returns is the number of
\* sheets of the input workbook, which is the number of collections in the
\* document it wrote.
C30_SheetCount ==
  [][(cvt'.runs = cvt.runs + 1 /\ cvt.input # <<>>)
     => /\ cvt'.sheets = Len(cvt.input[1])
        /\ cvt'.sheets = Cardinality(DOMAIN cvt'.output[1] \ {"version"})]_vars

====
